---- MODULE Spec2Model ----
(***************************************************************************)
(* Concurrency-and-cost-control core of the YouTube transcript MCP server: *)
(* the ApifySemaphore Durable Object, the token ledger (checkBalance,      *)
(* consumeTokens, consumeTokensWithRetry), the KV result cache and the     *)
(* tool handlers that compose them.                                        *)
(***************************************************************************)
EXTENDS Integers, Sequences, FiniteSets, TLC

VARIABLES
    now,               \* Date.now() of the Durable Object, in ms
    ticks,             \* number of clock advances so far (bounded)
    activeSlots,       \* ApifySemaphore.activeSlots
    slotRegistry,      \* ApifySemaphore.slotRegistry, in Map insertion order
    storage,           \* ctx.storage: the persisted activeSlots and slotRegistry
    users,             \* table users: user_id -> row, or NoRow
    transactions,      \* table transactions: set of rows
    mcp_actions,       \* table mcp_actions: set of rows, action_id UNIQUE
    failed_deductions, \* table failed_deductions: set of rows
    cache,             \* CACHE_KV: cache key -> cached value, or NoValue
    serverCache,       \* LRUCache of MCP servers, in Map insertion order
    pc,                \* per invocation: the await it is suspended at
    inv                \* per invocation: locals of the handler / ledger call

semVars == <<now, ticks, activeSlots, slotRegistry, storage>>
dbVars == <<users, transactions, mcp_actions, failed_deductions>>
vars == <<now, ticks, activeSlots, slotRegistry, storage,
          users, transactions, mcp_actions, failed_deductions,
          cache, serverCache, pc, inv>>

---------------------------------------------------------------------------
(* Program constants *)

MAX_SLOTS == 32
STALE_THRESHOLD == 300000
ESTIMATED_WAIT == 60
ACTOR_ID == "faVsWy9VTSNVIhWpR"

(* Bounds of the model *)

MaxTicks == 2
MaxClockTicks == 1

BgUser == "u0"
FgUsers == {"u1", "u2"}
UserIds == FgUsers \cup {BgUser}
TickSteps == {1, STALE_THRESHOLD}
Procs == {1, 2}

NoRow == [absent |-> TRUE]
NoValue == [miss |-> TRUE]
NoSlot == [none |-> TRUE]

---------------------------------------------------------------------------
(* ApifySemaphore *)

SlotId(userId, t) == <<userId, t>>

SlotEntry(userId, t) ==
    [slotId |-> SlotId(userId, t), userId |-> userId,
     actorId |-> ACTOR_ID, timestamp |-> t]

\* Map.set: an existing key keeps its position and takes the new value
RegistrySet(reg, entry) ==
    IF \E i \in 1..Len(reg) : reg[i].slotId = entry.slotId
    THEN [i \in 1..Len(reg) |->
            IF reg[i].slotId = entry.slotId THEN entry ELSE reg[i]]
    ELSE Append(reg, entry)

\* Map.delete of the entry at position i
RegistryDeleteAt(reg, i) ==
    [j \in 1..(Len(reg) - 1) |-> IF j < i THEN reg[j] ELSE reg[j + 1]]

Max0(n) == IF n > 0 THEN n ELSE 0

AtCapacityOffByOne(active) == active > MAX_SLOTS
AtCapacity(active) == active >= MAX_SLOTS

Persisted(active, reg) == [activeSlots |-> active, slotRegistry |-> reg]

\* constructor: restore the counter and the registry from storage
Restore(st) == [activeSlots |-> st.activeSlots, slotRegistry |-> st.slotRegistry]

\* an acquireSlot that registers the request before it looks at the counter
AcquireSlotRegistersFirst(active, reg, st, userId, t) ==
    LET reg2 == RegistrySet(reg, SlotEntry(userId, t))
    IN IF AtCapacity(active)
       THEN [activeSlots |-> active, slotRegistry |-> reg2, storage |-> st,
             result |-> [acquired |-> FALSE, currentSlots |-> active,
                         maxSlots |-> MAX_SLOTS,
                         estimatedWaitTime |-> ESTIMATED_WAIT]]
       ELSE [activeSlots |-> active + 1, slotRegistry |-> reg2,
             storage |-> Persisted(active + 1, reg2),
             result |-> [acquired |-> TRUE, currentSlots |-> active + 1,
                         maxSlots |-> MAX_SLOTS]]

\* acquireSlot: the new in-memory state, what is persisted and the SemaphoreSlot
AcquireSlot(active, reg, st, userId, t) ==
    IF AtCapacity(active)
    THEN [activeSlots |-> active, slotRegistry |-> reg, storage |-> st,
          result |-> [acquired |-> FALSE, currentSlots |-> active,
                      maxSlots |-> MAX_SLOTS,
                      estimatedWaitTime |-> ESTIMATED_WAIT]]
    ELSE LET reg2 == RegistrySet(reg, SlotEntry(userId, t))
         IN [activeSlots |-> active + 1, slotRegistry |-> reg2,
             storage |-> Persisted(active + 1, reg2),
             result |-> [acquired |-> TRUE, currentSlots |-> active + 1,
                         maxSlots |-> MAX_SLOTS]]

\* position of the first registry entry owned by userId, 0 when there is none
FirstSlotOf(reg, userId) ==
    IF \E i \in 1..Len(reg) : reg[i].userId = userId
    THEN CHOOSE i \in 1..Len(reg) :
            /\ reg[i].userId = userId
            /\ \A j \in 1..(i - 1) : reg[j].userId # userId
    ELSE 0

\* a releaseSlot that counts down whether or not it found a slot
ReleaseSlotAlwaysDecrements(active, reg, st, userId) ==
    LET i == FirstSlotOf(reg, userId)
        reg2 == IF i # 0 THEN RegistryDeleteAt(reg, i) ELSE reg
    IN [activeSlots |-> Max0(active - 1), slotRegistry |-> reg2,
        storage |-> Persisted(Max0(active - 1), reg2)]

\* releaseSlot
ReleaseSlot(active, reg, st, userId) ==
    LET i == FirstSlotOf(reg, userId)
    IN IF i # 0
       THEN LET reg2 == RegistryDeleteAt(reg, i)
            IN [activeSlots |-> Max0(active - 1), slotRegistry |-> reg2,
                storage |-> Persisted(Max0(active - 1), reg2)]
       ELSE [activeSlots |-> active, slotRegistry |-> reg, storage |-> st]

\* a sweep that finds nothing stale
IsStaleNever(entry, t) == FALSE

\* a sweep that takes the entries that have just reached the threshold too
IsStaleAtThreshold(entry, t) == t - entry.timestamp >= STALE_THRESHOLD

IsStale(entry, t) == t - entry.timestamp > STALE_THRESHOLD

RECURSIVE SweepFrom(_, _, _, _, _)
\* the for-loop of cleanupStaleSlots, from position i on
SweepFrom(active, reg, i, t, cleaned) ==
    IF i > Len(reg)
    THEN [activeSlots |-> active, slotRegistry |-> reg, cleaned |-> cleaned]
    ELSE IF IsStale(reg[i], t)
         THEN SweepFrom(Max0(active - 1), RegistryDeleteAt(reg, i), i, t,
                        cleaned + 1)
         ELSE SweepFrom(active, reg, i + 1, t, cleaned)

\* cleanupStaleSlots
CleanupStaleSlots(active, reg, st, t) ==
    LET s == SweepFrom(active, reg, 1, t, 0)
    IN [activeSlots |-> s.activeSlots, slotRegistry |-> s.slotRegistry,
        storage |-> IF s.cleaned > 0
                    THEN Persisted(s.activeSlots, s.slotRegistry) ELSE st,
        cleaned |-> s.cleaned]

---------------------------------------------------------------------------
(* Initial states of the semaphore: what the constructor restores.  Either *)
(* nothing was stored, or the slots of backend jobs that other isolates    *)
(* started one millisecond apart and that are still running.               *)

Preloads == {0, MAX_SLOTS - 1, MAX_SLOTS}

StoredSlots(k) ==
    Persisted(k, [i \in 1..k |-> SlotEntry(BgUser, i)])

SemInitWith(k) ==
    /\ storage = StoredSlots(k)
    /\ activeSlots = Restore(storage).activeSlots
    /\ slotRegistry = Restore(storage).slotRegistry
    /\ now = k
    /\ ticks = 0

SemInit == \E k \in Preloads : SemInitWith(k)

Tick ==
    /\ ticks < MaxTicks
    /\ \E d \in TickSteps : now' = now + d
    /\ ticks' = ticks + 1
    /\ UNCHANGED <<activeSlots, slotRegistry, storage>>

---------------------------------------------------------------------------
(* Token ledger: the D1 statements of checkBalance and consumeTokens *)

MAX_RETRIES == 3
TRANSCRIPT_COST == 3
SUMMARY_COST == 5

Null == <<>>
Val(n) == <<n>>

UserRow(balance, used, deleted) ==
    [current_token_balance |-> balance, total_tokens_used |-> used,
     is_deleted |-> deleted]

\* SELECT current_token_balance, is_deleted FROM users WHERE user_id = ?
SelectUser(us, userId) == us[userId]

\* a checkBalance that answers a missing row like a deleted account
CheckBalanceMissingAsDeleted(us, userId, requiredTokens) ==
    LET row == SelectUser(us, userId)
    IN IF row = NoRow \/ row.is_deleted = 1
       THEN [sufficient |-> FALSE,
             currentBalance |-> IF row = NoRow THEN 0
                                ELSE row.current_token_balance,
             required |-> requiredTokens, userDeleted |-> Val(TRUE)]
       ELSE [sufficient |-> row.current_token_balance >= requiredTokens,
             currentBalance |-> row.current_token_balance,
             required |-> requiredTokens, userDeleted |-> Val(FALSE)]

\* a checkBalance that does not look at is_deleted
CheckBalanceIgnoresDeleted(us, userId, requiredTokens) ==
    LET row == SelectUser(us, userId)
    IN IF row = NoRow
       THEN [sufficient |-> FALSE, currentBalance |-> 0,
             required |-> requiredTokens, userDeleted |-> Null]
       ELSE [sufficient |-> row.current_token_balance >= requiredTokens,
             currentBalance |-> row.current_token_balance,
             required |-> requiredTokens, userDeleted |-> Val(FALSE)]

\* checkBalance
CheckBalance(us, userId, requiredTokens) ==
    LET row == SelectUser(us, userId)
    IN IF row = NoRow
       THEN [sufficient |-> FALSE, currentBalance |-> 0,
             required |-> requiredTokens, userDeleted |-> Null]
       ELSE IF row.is_deleted = 1
       THEN [sufficient |-> FALSE,
             currentBalance |-> row.current_token_balance,
             required |-> requiredTokens, userDeleted |-> Val(TRUE)]
       ELSE [sufficient |-> row.current_token_balance >= requiredTokens,
             currentBalance |-> row.current_token_balance,
             required |-> requiredTokens, userDeleted |-> Val(FALSE)]

\* SELECT ... FROM mcp_actions WHERE action_id = ?
ExistingAction(acts, actionId) == \E a \in acts : a.action_id = actionId

\* the result of the existingAction branch
ReplayResultUntagged(us, userId, actionId) ==
    [success |-> TRUE,
     newBalance |-> IF us[userId] = NoRow THEN 0
                    ELSE us[userId].current_token_balance,
     transactionId |-> <<"existing">>, actionId |-> actionId,
     alreadyProcessed |-> FALSE]
ReplayResult(us, userId, actionId) ==
    [success |-> TRUE,
     newBalance |-> IF us[userId] = NoRow THEN 0
                    ELSE us[userId].current_token_balance,
     transactionId |-> <<"existing">>, actionId |-> actionId,
     alreadyProcessed |-> TRUE]

\* statement 1 of the batch: UPDATE users SET balance = balance - ?, used = used + ?
UpdateUsers(us, userId, amount) ==
    IF us[userId] = NoRow THEN us
    ELSE [us EXCEPT ![userId] =
            UserRow(@.current_token_balance - amount,
                    @.total_tokens_used + amount, @.is_deleted)]

\* the transactions row with the amount recorded as a credit
TransactionRowPositive(us, userId, amount, transactionId) ==
    [transaction_id |-> transactionId, user_id |-> userId,
     type |-> "usage", token_amount |-> amount,
     balance_after |-> IF us[userId] = NoRow THEN Null
                       ELSE Val(us[userId].current_token_balance)]

\* statement 2 of the batch: INSERT INTO transactions, balance_after read back
TransactionRow(us, userId, amount, transactionId) ==
    [transaction_id |-> transactionId, user_id |-> userId,
     type |-> "usage", token_amount |-> 0 - amount,
     balance_after |-> IF us[userId] = NoRow THEN Null
                       ELSE Val(us[userId].current_token_balance)]

\* statement 3 of the batch: INSERT INTO mcp_actions
ActionRow(userId, amount, toolName, success, actionId) ==
    [action_id |-> actionId, user_id |-> userId, tool_name |-> toolName,
     tokens_consumed |-> amount, success |-> success]

\* db.batch of the three statements without the rollback of a failed batch
BatchNoRollback(us, txs, acts, userId, amount, toolName, success, actionId, transactionId) ==
    LET us2 == UpdateUsers(us, userId, amount)
        txs2 == txs \cup {TransactionRow(us2, userId, amount, transactionId)}
    IN IF ExistingAction(acts, actionId)
       THEN [error |-> "UNIQUE constraint failed", changes |-> 0,
             users |-> us2, transactions |-> txs2, mcp_actions |-> acts]
       ELSE [error |-> "", changes |-> IF us[userId] = NoRow THEN 0 ELSE 1,
             users |-> us2, transactions |-> txs2,
             mcp_actions |-> acts \cup
                 {ActionRow(userId, amount, toolName, success, actionId)}]

\* db.batch: one transaction; a failing statement rolls all three back
Batch(us, txs, acts, userId, amount, toolName, success, actionId, transactionId) ==
    LET us2 == UpdateUsers(us, userId, amount)
        txs2 == txs \cup {TransactionRow(us2, userId, amount, transactionId)}
    IN IF ExistingAction(acts, actionId)
       THEN [error |-> "UNIQUE constraint failed", changes |-> 0,
             users |-> us, transactions |-> txs, mcp_actions |-> acts]
       ELSE [error |-> "", changes |-> IF us[userId] = NoRow THEN 0 ELSE 1,
             users |-> us2, transactions |-> txs2,
             mcp_actions |-> acts \cup
                 {ActionRow(userId, amount, toolName, success, actionId)}]

\* the row consumeTokensWithRetry writes when every attempt failed
FailedDeductionRow(userId, amount, toolName, actionId, lastError) ==
    [action_id |-> actionId, user_id |-> userId, tool_name |-> toolName,
     token_amount |-> amount, error_message |-> lastError,
     retry_count |-> MAX_RETRIES]

---------------------------------------------------------------------------
(* consumeTokens and consumeTokensWithRetry, one D1 round trip per step.   *)
(* inv[p] holds the arguments and locals of the call that p is making; a   *)
(* step maps them and the tables to their values after the round trip.     *)

NoResult == [none |-> TRUE]

TRANSCRIPT_TOOL == "get_youtube_transcript"
SUMMARY_TOOL == "get_annotated_summary"

\* the success argument the caller passes: get_youtube_transcript passes true
\* when it serves a cache hit, every other call passes false
SuccessArg(i) == i.tool = TRANSCRIPT_TOOL /\ i.path = "hit"
TransientError == "D1_ERROR"
NoBalance == [none |-> TRUE]

\* locals of an invocation that has not started
IdleInv ==
    [userId |-> "", tool |-> "", url |-> "", actionId |-> 0, amount |-> 0,
     wrapped |-> FALSE, slot |-> NoSlot, attempt |-> 0,
     path |-> "", result |-> NoResult, threw |-> FALSE, lastError |-> "",
     outcome |-> "",
     \* history of the invocation, read by the properties only
     acquires |-> 0, releases |-> 0, executed |-> FALSE, commits |-> 0,
     debits |-> 0, replay |-> FALSE, conflicts |-> 0, touched |-> FALSE,
     cause |-> "", sufficient |-> "", cacheWrites |-> 0,
     resultSanitized |-> "", logged |-> "", accountAtBatch |-> "",
     slotId |-> <<>>, balance |-> NoBalance, cleaned |-> 0,
     actorId |-> "", input |-> <<>>, digest |-> <<>>, cacheKey |-> <<>>,
     polls |-> 0, observed |-> "", error |-> "", hitShape |-> "",
     reentries |-> 0]

Db(us, txs, acts, fds) ==
    [users |-> us, transactions |-> txs, mcp_actions |-> acts,
     failed_deductions |-> fds]

CurrentDb == Db(users, transactions, mcp_actions, failed_deductions)

CtPcs == {"ct_check", "ct_replay", "ct_batch", "ct_post", "ct_log"}

\* how a D1 round trip can go: answered, failed before it took effect, or
\* (a batch) committed with the answer lost
NoFault == "none"
FaultsAt(c) ==
    IF c = "ct_batch" THEN {NoFault, "failed", "committed-then-failed"}
    ELSE {NoFault, "failed"}

\* where a finished ledger call returns to: its caller, or the tool handler,
\* which discards the result and goes to its finally block
ReturnPc(i) == IF i.tool = "consumeTokens" THEN "done" ELSE "finally"

Leave(i, threw) ==
    IF i.tool = "consumeTokens"
    THEN [i EXCEPT !.threw = threw, !.outcome = IF threw THEN "error" ELSE "ok"]
    ELSE [i EXCEPT !.threw = threw, !.result = NoResult, !.attempt = 0,
                   !.lastError = "",
                   !.outcome = IF threw THEN "error"
                               ELSE IF i.path = "hit" /\ i.tool # SUMMARY_TOOL
                               THEN "cached" ELSE "ok"]

\* consumeTokens returns r to consumeTokensWithRetry, which returns it
Returned(i, r, db) ==
    [pc |-> ReturnPc(i), inv |-> Leave([i EXCEPT !.result = r], FALSE), db |-> db]

\* a catch that gives up on the first failure
ThrownNoRetry(i, msg, db) ==
    LET e == [i EXCEPT !.lastError = msg]
    IN IF ~i.wrapped
       THEN [pc |-> ReturnPc(i), inv |-> Leave(e, TRUE), db |-> db]
       ELSE [pc |-> "ct_log", inv |-> e, db |-> db]

\* consumeTokens throws: the catch of consumeTokensWithRetry retries or gives up
Thrown(i, msg, db) ==
    LET e == [i EXCEPT !.lastError = msg]
    IN IF ~i.wrapped
       THEN [pc |-> ReturnPc(i), inv |-> Leave(e, TRUE), db |-> db]
       ELSE IF i.attempt < MAX_RETRIES
       THEN [pc |-> "ct_check", inv |-> [e EXCEPT !.attempt = @ + 1], db |-> db]
       ELSE [pc |-> "ct_log", inv |-> e, db |-> db]

\* entry of consumeTokensWithRetry (wrapped) or of consumeTokens itself
CallConsume(i, amount, wrapped) ==
    [i EXCEPT !.amount = amount, !.wrapped = wrapped, !.attempt = 1,
              !.replay = ExistingAction(mcp_actions, i.actionId)]

\* the idempotency SELECT, then the validation of the arguments
CheckStep(i, db, fail) ==
    IF fail # NoFault THEN Thrown(i, TransientError, db)
    ELSE IF ExistingAction(db.mcp_actions, i.actionId)
    THEN [pc |-> "ct_replay", inv |-> i, db |-> db]
    ELSE IF i.amount <= 0
    THEN Thrown(i, "Token amount must be positive", db)
    ELSE IF i.userId = ""
    THEN Thrown(i, "Missing required parameters", db)
    ELSE [pc |-> "ct_batch", inv |-> i, db |-> db]

\* the existingAction branch: SELECT the balance and return the replay
ReplayStep(i, db, fail) ==
    IF fail # NoFault THEN Thrown(i, TransientError, db)
    ELSE Returned(i, ReplayResult(db.users, i.userId, i.actionId), db)

\* crypto.randomUUID() for the transaction of a batch
TransactionId(p, i) == <<p, i.commits + 1>>

\* what the users row said about the account when the batch ran
AccountState(us, userId) ==
    IF us[userId] = NoRow THEN "missing"
    ELSE IF us[userId].is_deleted = 1 THEN "deleted" ELSE "active"

\* db.batch with a catch that rethrows the UNIQUE failure like any other
BatchStepUniqueThrows(p, i, db, fail) ==
    LET r == Batch(db.users, db.transactions, db.mcp_actions, i.userId,
                   i.amount, i.tool, SuccessArg(i), i.actionId,
                   TransactionId(p, i))
        db2 == Db(r.users, r.transactions, r.mcp_actions, db.failed_deductions)
        c == [i EXCEPT !.debits = @ + IF r.users # db.users THEN 1 ELSE 0,
                       !.commits = @ + 1]
    IN IF fail = "failed" THEN Thrown(i, TransientError, db)
       ELSE IF fail # NoFault
       THEN Thrown(IF r.error # "" THEN i ELSE c, TransientError, db2)
       ELSE IF r.error # ""
       THEN Thrown([i EXCEPT !.conflicts = @ + 1], r.error, db2)
       ELSE IF r.changes = 0
       THEN Thrown(c, "User not found or balance update failed", db2)
       ELSE [pc |-> "ct_post", inv |-> c, db |-> db2]

\* db.batch with a catch that answers the UNIQUE failure by running the
\* batch again, without the idempotency check
BatchStepRepeatsBatch(p, i, db, fail) ==
    LET r == Batch(db.users, db.transactions, db.mcp_actions, i.userId,
                   i.amount, i.tool, SuccessArg(i), i.actionId,
                   TransactionId(p, i))
        db2 == Db(r.users, r.transactions, r.mcp_actions, db.failed_deductions)
        d == [i EXCEPT !.debits = @ + IF r.users # db.users THEN 1 ELSE 0,
                       !.conflicts = @ + IF r.error # "" THEN 1 ELSE 0,
                       !.accountAtBatch = AccountState(db.users, i.userId)]
        c == [d EXCEPT !.commits = @ + 1]
    IN IF fail = "failed" THEN Thrown(i, TransientError, db)
       ELSE IF fail # NoFault
       THEN Thrown(IF r.error # "" THEN d ELSE c, TransientError, db2)
       ELSE IF r.error # ""
       THEN [pc |-> "ct_batch", inv |-> [d EXCEPT !.reentries = @ + 1],
             db |-> db2]
       ELSE IF r.changes = 0
       THEN Thrown(c, "User not found or balance update failed", db2)
       ELSE [pc |-> "ct_post", inv |-> c, db |-> db2]

\* db.batch and the checks of its result; a UNIQUE failure re-enters
\* consumeTokens
BatchStep(p, i, db, fail) ==
    LET r == Batch(db.users, db.transactions, db.mcp_actions, i.userId,
                   i.amount, i.tool, SuccessArg(i), i.actionId,
                   TransactionId(p, i))
        db2 == Db(r.users, r.transactions, r.mcp_actions, db.failed_deductions)
        d == [i EXCEPT !.debits = @ + IF r.users # db.users THEN 1 ELSE 0,
                       !.conflicts = @ + IF r.error # "" THEN 1 ELSE 0,
                       !.accountAtBatch = AccountState(db.users, i.userId)]
        c == [d EXCEPT !.commits = @ + 1]
    IN IF fail = "failed" THEN Thrown(i, TransientError, db)
       ELSE IF fail # NoFault
       THEN Thrown(IF r.error # "" THEN d ELSE c, TransientError, db2)
       ELSE IF r.error # ""
       THEN [pc |-> "ct_check", inv |-> [d EXCEPT !.reentries = @ + 1],
             db |-> db2]
       ELSE IF r.changes = 0
       THEN Thrown(c, "User not found or balance update failed", db2)
       ELSE [pc |-> "ct_post", inv |-> c, db |-> db2]

\* the SELECT of the updated balance and the fresh result
PostStep(p, i, db, fail) ==
    IF fail # NoFault THEN Thrown(i, TransientError, db)
    ELSE IF db.users[i.userId] = NoRow
    THEN Thrown(i, "Failed to retrieve updated balance", db)
    ELSE Returned(i, [success |-> TRUE,
                      newBalance |-> db.users[i.userId].current_token_balance,
                      transactionId |-> <<p, i.commits>>,
                      actionId |-> i.actionId,
                      alreadyProcessed |-> FALSE], db)

\* all attempts failed: INSERT INTO failed_deductions (its own failure is
\* swallowed), then the last error is thrown to the caller
LogStep(i, db, fail) ==
    [pc |-> ReturnPc(i),
     inv |-> Leave([i EXCEPT !.logged = IF fail # NoFault THEN "lost"
                                        ELSE "written"], TRUE),
     db |-> IF fail # NoFault THEN db
            ELSE [db EXCEPT !.failed_deductions = @ \cup
                    {FailedDeductionRow(i.userId, i.amount, i.tool,
                                        i.actionId, i.lastError)}]]

ConsumeStep(p, c, i, db, fail) ==
    CASE c = "ct_check" -> CheckStep(i, db, fail)
      [] c = "ct_replay" -> ReplayStep(i, db, fail)
      [] c = "ct_batch" -> BatchStep(p, i, db, fail)
      [] c = "ct_post" -> PostStep(p, i, db, fail)
      [] c = "ct_log" -> LogStep(i, db, fail)

\* p takes the step st
Apply(p, st) ==
    /\ pc' = [pc EXCEPT ![p] = st.pc]
    /\ inv' = [inv EXCEPT ![p] = st.inv]
    /\ users' = st.db.users
    /\ transactions' = st.db.transactions
    /\ mcp_actions' = st.db.mcp_actions
    /\ failed_deductions' = st.db.failed_deductions

Step(p, r) ==
    /\ pc' = [pc EXCEPT ![p] = r.pc]
    /\ inv' = [inv EXCEPT ![p] = r.inv]

CtCheck(p) ==
    /\ pc[p] = "ct_check"
    /\ \E fail \in FaultsAt("ct_check") : Apply(p, CheckStep(inv[p], CurrentDb, fail))
    /\ UNCHANGED <<semVars, cache, serverCache>>

CtReplay(p) ==
    /\ pc[p] = "ct_replay"
    /\ \E fail \in FaultsAt("ct_replay") : Apply(p, ReplayStep(inv[p], CurrentDb, fail))
    /\ UNCHANGED <<semVars, cache, serverCache>>

CtBatch(p) ==
    /\ pc[p] = "ct_batch"
    /\ \E fail \in FaultsAt("ct_batch") : Apply(p, BatchStep(p, inv[p], CurrentDb, fail))
    /\ UNCHANGED <<semVars, cache, serverCache>>

CtPost(p) ==
    /\ pc[p] = "ct_post"
    /\ \E fail \in FaultsAt("ct_post") : Apply(p, PostStep(p, inv[p], CurrentDb, fail))
    /\ UNCHANGED <<semVars, cache, serverCache>>

CtLog(p) ==
    /\ pc[p] = "ct_log"
    /\ \E fail \in FaultsAt("ct_log") : Apply(p, LogStep(inv[p], CurrentDb, fail))
    /\ UNCHANGED <<semVars, cache, serverCache>>

Consume(p) == CtCheck(p) \/ CtReplay(p) \/ CtBatch(p) \/ CtPost(p) \/ CtLog(p)

RECURSIVE ConsumeOutcomes(_, _)
\* every way a call that stands at st can end, over the round trips that fail
ConsumeOutcomes(p, st) ==
    IF st.pc \notin CtPcs THEN {st}
    ELSE UNION {ConsumeOutcomes(p, ConsumeStep(p, st.pc, st.inv, st.db, fail)) :
                  fail \in FaultsAt(st.pc)}

---------------------------------------------------------------------------
(* LedgerSpec: callers of consumeTokens and consumeTokensWithRetry that    *)
(* may share an action id, against one shared database.                    *)

MaxActions == 2
ActionIds == 1..MaxActions
Amounts == {0, TRANSCRIPT_COST}

DbInitWith(b) ==
    /\ users = [u \in UserIds |->
                  IF u = "u2" THEN NoRow ELSE UserRow(b, 0, 0)]
    /\ transactions = {}
    /\ mcp_actions = {}
    /\ failed_deductions = {}

ProcInit ==
    /\ pc = [p \in Procs |-> "idle"]
    /\ inv = [p \in Procs |-> IdleInv]

\* the balance every user row starts with
LedgerStartingBalance == 2 * SUMMARY_COST

LedgerInit ==
    /\ SemInitWith(0)
    /\ DbInitWith(LedgerStartingBalance)
    /\ cache = [k \in {"v1"} |-> NoValue]
    /\ serverCache = <<>>
    /\ ProcInit

\* a caller starts consumeTokens (wrapped = FALSE) or consumeTokensWithRetry
LedgerCall(p) ==
    /\ pc[p] = "idle"
    /\ \E u \in FgUsers, amt \in Amounts, a \in ActionIds, w \in BOOLEAN :
        /\ pc' = [pc EXCEPT ![p] = "ct_check"]
        /\ inv' = [inv EXCEPT ![p] =
              CallConsume([IdleInv EXCEPT !.userId = u, !.actionId = a,
                                          !.tool = "consumeTokens"], amt, w)]
    /\ UNCHANGED <<semVars, dbVars, cache, serverCache>>

\* the account service sets the soft-delete flag of a user
SoftDelete(u) ==
    /\ users[u] # NoRow
    /\ users[u].is_deleted = 0
    /\ users' = [users EXCEPT ![u].is_deleted = 1]
    /\ UNCHANGED <<semVars, transactions, mcp_actions, failed_deductions,
                   cache, serverCache, pc, inv>>

LedgerNext ==
    \/ \E p \in Procs : LedgerCall(p) \/ Consume(p)
    \/ \E u \in FgUsers : SoftDelete(u)

LedgerSpec == LedgerInit /\ [][LedgerNext]_vars

---------------------------------------------------------------------------
(* BalanceSpec: LedgerSpec with callers of checkBalance next to the        *)
(* callers of consumeTokens.                                               *)

RequiredTokens == {TRANSCRIPT_COST, SUMMARY_COST, 2 * SUMMARY_COST}
BalanceError == "Failed to check token balance"

\* a caller runs checkBalance(userId, requiredTokens): the SELECT is answered
\* or fails, and the catch rethrows
BalanceCall(p) ==
    /\ pc[p] = "idle"
    /\ \E u \in FgUsers, required \in RequiredTokens, fail \in BOOLEAN :
        /\ pc' = [pc EXCEPT ![p] = "done"]
        /\ inv' = [inv EXCEPT ![p] =
              [IdleInv EXCEPT
                 !.userId = u, !.tool = "checkBalance", !.amount = required,
                 !.threw = fail,
                 !.lastError = IF fail THEN BalanceError ELSE "",
                 !.outcome = IF fail THEN "error" ELSE "ok",
                 !.balance = IF fail THEN NoBalance
                             ELSE CheckBalance(users, u, required)]]
    /\ UNCHANGED <<semVars, dbVars, cache, serverCache>>

\* a call that has started is carried on: each of its awaits is answered or
\* fails
LedgerFairSpec ==
    LedgerSpec /\ \A p \in Procs : WF_vars(Consume(p))

BalanceNext == LedgerNext \/ \E p \in Procs : BalanceCall(p)

BalanceSpec == LedgerInit /\ [][BalanceNext]_vars

---------------------------------------------------------------------------
(* The tool handlers get_youtube_transcript and get_annotated_summary,     *)
(* await by await.  Every invocation draws its own actionId.               *)

Tools == {TRANSCRIPT_TOOL, SUMMARY_TOOL}
Urls == {"v1"}

\* FLAT_COST (= MAX_COST) of a tool
FlatCost(tool) == IF tool = SUMMARY_TOOL THEN SUMMARY_COST ELSE TRANSCRIPT_COST

\* hashApifyInput + buildCacheKey: one key per (actor, videoUrl)
CacheKey(url) == url

\* what each tool stores under the key: its finalResult, built from the text
\* that sanitizeOutput and redactPII returned, or results.items[0] as the
\* backend returned it
CachedValue(tool, url) ==
    [videoUrl |-> url,
     shape |-> IF tool = SUMMARY_TOOL THEN "apify-item" ELSE "finalResult",
     sanitized |-> tool # SUMMARY_TOOL]

\* backend jobs running now: those of other isolates that hold the restored
\* slots, and the invocations suspended in runActorSync
Executing == {p \in Procs : pc[p] = "exec"}
BgExecuting == {i \in 1..Len(slotRegistry) : slotRegistry[i].userId = BgUser}

\* STEP 1: the handler starts, draws its actionId and validates the URL
Invoke(p) ==
    /\ pc[p] = "idle"
    /\ \E u \in FgUsers, tool \in Tools, url \in Urls, valid \in BOOLEAN :
          LET i == [IdleInv EXCEPT !.userId = u, !.tool = tool, !.url = url,
                                   !.actionId = p]
          IN Step(p, IF valid THEN [pc |-> "check", inv |-> i]
                     ELSE [pc |-> "finally",
                           inv |-> [i EXCEPT !.outcome = "error"]])
    /\ UNCHANGED <<semVars, dbVars, cache, serverCache>>

\* a handler that goes on whatever checkBalance answered
AfterBalanceIgnored(i, b) ==
    [pc |-> "cacheget",
     inv |-> [i EXCEPT !.sufficient = IF b.sufficient THEN "yes" ELSE "no"]]

\* if (!balanceCheck.sufficient) return the insufficient-tokens error
AfterBalance(i, b) ==
    IF ~b.sufficient
    THEN [pc |-> "finally",
          inv |-> [i EXCEPT !.sufficient = "no", !.outcome = "insufficient"]]
    ELSE [pc |-> "cacheget", inv |-> [i EXCEPT !.sufficient = "yes"]]

\* STEP 2: checkBalance(userId, MAX_COST)
CheckBal(p) ==
    /\ pc[p] = "check"
    /\ \E fail \in BOOLEAN :
           LET i == inv[p]
               b == CheckBalance(users, i.userId, FlatCost(i.tool))
           IN Step(p, IF fail
                      THEN [pc |-> "finally",
                            inv |-> [i EXCEPT !.outcome = "error"]]
                      ELSE AfterBalance(i, b))
    /\ UNCHANGED <<semVars, dbVars, cache, serverCache>>

\* after the cache lookup: a hit goes around the semaphore
AfterLookupSemaphoreFirst(i, hit) ==
    [pc |-> "acquire", inv |-> [i EXCEPT !.path = IF hit THEN "hit" ELSE "miss"]]

\* a handler with a cheaper tier for cached results
AfterLookupCacheTier(i, hit) ==
    IF ~hit THEN [pc |-> "acquire", inv |-> [i EXCEPT !.path = "miss"]]
    ELSE IF i.tool = SUMMARY_TOOL
    THEN [pc |-> "workflow", inv |-> [i EXCEPT !.path = "hit"]]
    ELSE [pc |-> "debit",
          inv |-> CallConsume([i EXCEPT !.path = "hit"], 1, TRUE)]

AfterLookup(i, hit) ==
    IF ~hit THEN [pc |-> "acquire", inv |-> [i EXCEPT !.path = "miss"]]
    ELSE IF i.tool = SUMMARY_TOOL
    THEN [pc |-> "workflow", inv |-> [i EXCEPT !.path = "hit"]]
    ELSE [pc |-> "debit",
          inv |-> CallConsume([i EXCEPT !.path = "hit"], FlatCost(i.tool), TRUE)]

KvReadFailed == "kv-read-failed"

\* the invocation remembers a read that failed on a stored value; a failed
\* read of an absent key leaves no trace, the answer being the same null
ReadFailure(i, cached) ==
    IF cached # NoValue THEN [i EXCEPT !.cause = KvReadFailed] ELSE i

\* a getCachedApifyResult that lets the error of kv.get through to the handler
AfterCacheReadRaises(i, cached, kvFails) ==
    IF kvFails
    THEN [pc |-> "finally",
          inv |-> [ReadFailure(i, cached) EXCEPT !.outcome = "error"]]
    ELSE AfterLookup(i, cached # NoValue)

\* getCachedApifyResult: the value of kv.get, or null when there is none or
\* when kv.get raised (the catch returns null); then the handler's if (cached)
AfterCacheRead(i, cached, kvFails) ==
    IF kvFails THEN AfterLookup(ReadFailure(i, cached), FALSE)
    ELSE AfterLookup(i, cached # NoValue)

\* STEP 3.5: getCachedApifyResult; a failing KV read is answered as a miss
CacheGet(p) ==
    /\ pc[p] = "cacheget"
    /\ \E kvFails \in BOOLEAN :
          LET cached == cache[CacheKey(inv[p].url)]
              r == AfterCacheRead(inv[p], cached, kvFails)
              h == IF r.inv.path = "hit"
                   THEN [r EXCEPT !.inv.hitShape = cached.shape] ELSE r
          IN Step(p, IF r.pc = "debit"
                     THEN [h EXCEPT !.inv.resultSanitized =
                              IF cached.sanitized THEN "yes" ELSE "no"]
                     ELSE h)
    /\ UNCHANGED <<semVars, dbVars, cache, serverCache>>

\* STEP 3.7: slot = await semaphore.acquireSlot(userId, ACTOR_ID); the handler
\* goes on to runActorSync whatever the SemaphoreSlot says
Acquire(p) ==
    /\ pc[p] = "acquire"
    /\ LET i == inv[p]
           r == AcquireSlot(activeSlots, slotRegistry, storage, i.userId, now)
       IN /\ activeSlots' = r.activeSlots
          /\ slotRegistry' = r.slotRegistry
          /\ storage' = r.storage
          /\ Step(p, [pc |-> "exec",
                      inv |-> [i EXCEPT !.slot = r.result,
                                        !.slotId =
                                           IF r.result.acquired
                                           THEN SlotId(i.userId, now) ELSE @,
                                        !.acquires = @ + 1,
                                        !.executed = TRUE,
                                        !.touched = @ \/
                                           r.activeSlots # activeSlots \/
                                           r.slotRegistry # slotRegistry]])
    /\ UNCHANGED <<now, ticks, dbVars, cache, serverCache>>

ExecOutcomes == {"items", "no-items", "blank", "raise", "r2-raise"}

\* get_annotated_summary neither inspects the text nor uploads it
Usable(i, o) ==
    \/ o = "items"
    \/ i.tool = SUMMARY_TOOL /\ o \in {"blank", "r2-raise"}

\* a handler that goes on to cache and charge whatever the backend did
AfterExecChargesFailures(i, o) ==
    IF Usable(i, o) THEN [pc |-> "cacheput", inv |-> i]
    ELSE [pc |-> "debit",
          inv |-> CallConsume([i EXCEPT !.cause = o], FlatCost(i.tool), TRUE)]

\* a handler that charges for the result before it stores it
AfterExecDebitsBeforePut(i, o) ==
    IF Usable(i, o)
    THEN [pc |-> "debit", inv |-> CallConsume(i, FlatCost(i.tool), TRUE)]
    ELSE [pc |-> "finally",
          inv |-> [i EXCEPT !.cause = o,
                            !.outcome = IF o \in {"raise", "r2-raise"}
                                        THEN "error" ELSE "no-transcript"]]

\* a handler that caches whatever the backend job did
AfterExecCachesFailures(i, o) ==
    [pc |-> "cacheput",
     inv |-> IF Usable(i, o) THEN i ELSE [i EXCEPT !.cause = o]]

\* where the handler goes with outcome o of the backend job
AfterExec(i, o) ==
    IF Usable(i, o) THEN [pc |-> "cacheput", inv |-> i]
    ELSE [pc |-> "finally",
          inv |-> [i EXCEPT !.cause = o,
                            !.outcome = IF o \in {"raise", "r2-raise"}
                                        THEN "error" ELSE "no-transcript"]]

\* STEP 4..4.6: runActorSync returns or raises; the result is checked,
\* sanitized and redacted (and uploaded to R2 by get_youtube_transcript)
ExecDone(p) ==
    /\ pc[p] = "exec"
    /\ \E o \in ExecOutcomes : Step(p, AfterExec(inv[p], o))
    /\ UNCHANGED <<semVars, dbVars, cache, serverCache>>

KvWriteFailed == "kv-write-failed"

\* a setCachedApifyResult that lets the error of kv.put through to the handler
AfterCachePutRaises(i, kvFails) ==
    LET w == [i EXCEPT !.cacheWrites = @ + 1]
    IN IF kvFails
       THEN [pc |-> "finally",
             inv |-> [w EXCEPT !.cause = KvWriteFailed, !.outcome = "error"]]
       ELSE IF i.tool = SUMMARY_TOOL
       THEN [pc |-> "workflow", inv |-> w]
       ELSE [pc |-> "debit",
             inv |-> CallConsume([w EXCEPT !.resultSanitized = "yes"],
                                 FlatCost(i.tool), TRUE)]

\* setCachedApifyResult has returned, whether kv.put stored the value or
\* raised (the catch logs and does not rethrow): the handler goes on
AfterCachePut(i, kvFails) ==
    LET w == [i EXCEPT !.cacheWrites = @ + 1,
                       !.cause = IF kvFails THEN KvWriteFailed ELSE @]
    IN IF i.tool = SUMMARY_TOOL
       THEN [pc |-> "workflow", inv |-> w]
       ELSE [pc |-> "debit",
             inv |-> CallConsume([w EXCEPT !.resultSanitized = "yes"],
                                 FlatCost(i.tool), TRUE)]

\* STEP 4.7: setCachedApifyResult; a failing KV write is swallowed
CachePut(p) ==
    /\ pc[p] = "cacheput"
    /\ LET i == inv[p]
       IN \E kvFails \in BOOLEAN :
             /\ cache' = IF kvFails THEN cache
                         ELSE [cache EXCEPT ![CacheKey(i.url)] =
                                  CachedValue(i.tool, i.url)]
             /\ Step(p, AfterCachePut(i, kvFails))
    /\ UNCHANGED <<semVars, dbVars, serverCache>>

\* const maxAttempts = 30: the status is polled every 2 seconds
maxAttempts == 30

\* workflowResult before the workflow completed, and the result object that
\* the workflow's run() returns
NoOutput == ""
Output == "summary"

\* the polls at which the workflow is taken to reach its final status: the
\* last one of the loop, and one the loop never makes
FinalStatusAt == {maxAttempts, maxAttempts + 1}

\* the runs of a workflow instance: it reports status from its poll number
\* at on, and "running" before
WorkflowRuns ==
    {[at |-> k, status |-> "complete", output |-> Output] :
        k \in FinalStatusAt}
    \cup {[at |-> k, status |-> "errored", output |-> NoOutput] :
             k \in FinalStatusAt}

\* instance.status() at the n-th poll
StatusAt(run, n) == IF n >= run.at THEN run.status ELSE "running"

WorkflowFailed == "Workflow failed"
WorkflowTimedOut == "Workflow timed out after 60 seconds"

PollResult(polls, observed, workflowResult, error) ==
    [polls |-> polls, observed |-> observed,
     workflowResult |-> workflowResult, error |-> error]

\* the loop with the test attempts <= maxAttempts
RECURSIVE PollLoopInclusive(_, _)
PollLoopInclusive(run, attempts) ==
    IF attempts <= maxAttempts
    THEN LET status == StatusAt(run, attempts + 1)
         IN IF status = "complete"
            THEN PollResult(attempts + 1, status, run.output, "")
            ELSE IF status = "errored"
            THEN PollResult(attempts + 1, status, NoOutput, WorkflowFailed)
            ELSE PollLoopInclusive(run, attempts + 1)
    ELSE PollResult(attempts,
                    IF attempts = 0 THEN "" ELSE StatusAt(run, attempts),
                    NoOutput, "")

\* while (attempts < maxAttempts) { status = await instance.status(); ... }:
\* 'complete' takes the output and leaves the loop, 'errored' throws, any
\* other status waits and counts the attempt
RECURSIVE PollLoop(_, _)
PollLoop(run, attempts) ==
    IF attempts < maxAttempts
    THEN LET status == StatusAt(run, attempts + 1)
         IN IF status = "complete"
            THEN PollResult(attempts + 1, status, run.output, "")
            ELSE IF status = "errored"
            THEN PollResult(attempts + 1, status, NoOutput, WorkflowFailed)
            ELSE PollLoop(run, attempts + 1)
    ELSE PollResult(attempts,
                    IF attempts = 0 THEN "" ELSE StatusAt(run, attempts),
                    NoOutput, "")

\* the loop, then if (!workflowResult) throw 'Workflow timed out ...';
\* finalResult is the workflow's output as it came
AfterWorkflow(i, run) ==
    LET r == PollLoop(run, 0)
        j == [i EXCEPT !.polls = r.polls, !.observed = r.observed]
    IN IF r.error # ""
       THEN [pc |-> "finally",
             inv |-> [j EXCEPT !.cause = "errored", !.error = r.error,
                               !.outcome = "error"]]
       ELSE IF r.workflowResult = NoOutput
       THEN [pc |-> "finally",
             inv |-> [j EXCEPT !.cause = "timeout", !.error = WorkflowTimedOut,
                               !.outcome = "error"]]
       ELSE [pc |-> "debit",
             inv |-> CallConsume([j EXCEPT !.resultSanitized = "no"],
                                 FlatCost(i.tool), TRUE)]

\* STEP 5 of get_annotated_summary: create the workflow and poll its status
Workflow(p) ==
    /\ pc[p] = "workflow"
    /\ \E run \in WorkflowRuns : Step(p, AfterWorkflow(inv[p], run))
    /\ UNCHANGED <<semVars, dbVars, cache, serverCache>>

\* finally: if (slot && userId) releaseSlot(userId)
Finally(p) ==
    /\ pc[p] = "finally"
    /\ LET i == inv[p]
           r == ReleaseSlot(activeSlots, slotRegistry, storage, i.userId)
       IN IF i.slot # NoSlot
          THEN /\ activeSlots' = r.activeSlots
               /\ slotRegistry' = r.slotRegistry
               /\ storage' = r.storage
               /\ Step(p, [pc |-> "done",
                           inv |-> [i EXCEPT !.releases = @ + 1,
                                             !.touched = @ \/
                                                r.activeSlots # activeSlots \/
                                                r.slotRegistry # slotRegistry]])
          ELSE /\ UNCHANGED <<activeSlots, slotRegistry, storage>>
               /\ Step(p, [pc |-> "done", inv |-> i])
    /\ UNCHANGED <<now, ticks, dbVars, cache, serverCache>>

\* STEP 5: await consumeTokensWithRetry(...); the invocation's actionId is its
\* own, so the call is taken as one step
Debit(p) ==
    /\ pc[p] = "debit"
    /\ \E st \in ConsumeOutcomes(p, [pc |-> "ct_check", inv |-> inv[p],
                                      db |-> CurrentDb]) : Apply(p, st)
    /\ UNCHANGED <<semVars, cache, serverCache>>

Handler(p) ==
    \/ Invoke(p) \/ CheckBal(p) \/ CacheGet(p) \/ Acquire(p) \/ ExecDone(p)
    \/ CachePut(p) \/ Workflow(p) \/ Debit(p) \/ Finally(p)

\* the clock of the Durable Object advances by a millisecond
ClockTick ==
    /\ ticks < MaxClockTicks
    /\ now' = now + 1
    /\ ticks' = ticks + 1
    /\ UNCHANGED <<activeSlots, slotRegistry, storage, dbVars, cache, serverCache, pc, inv>>

Init ==
    /\ SemInit
    /\ users = [u \in UserIds |-> UserRow(SUMMARY_COST, 0, 0)]
    /\ transactions = {}
    /\ mcp_actions = {}
    /\ failed_deductions = {}
    /\ cache = [k \in Urls |-> NoValue]
    /\ serverCache = <<>>
    /\ ProcInit

Next == ClockTick \/ \E p \in Procs : Handler(p)

Spec == Init /\ [][Next]_vars

---------------------------------------------------------------------------
(* SemSpec: acquireSlot, releaseSlot and cleanupStaleSlots called in any   *)
(* order on the one ApifySemaphore instance.  The Durable Object runs one  *)
(* call at a time: a call's storage writes block the delivery of the next. *)

SemInitAll ==
    /\ SemInit
    /\ DbInitWith(2 * SUMMARY_COST)
    /\ cache = [k \in {"v1"} |-> NoValue]
    /\ serverCache = <<>>
    /\ ProcInit

SemAcquire ==
    /\ \E u \in FgUsers :
          LET r == AcquireSlot(activeSlots, slotRegistry, storage, u, now)
          IN /\ activeSlots' = r.activeSlots
             /\ slotRegistry' = r.slotRegistry
             /\ storage' = r.storage
    /\ UNCHANGED <<now, ticks, dbVars, cache, serverCache, pc, inv>>

SemRelease ==
    /\ \E u \in FgUsers :
          LET r == ReleaseSlot(activeSlots, slotRegistry, storage, u)
          IN /\ activeSlots' = r.activeSlots
             /\ slotRegistry' = r.slotRegistry
             /\ storage' = r.storage
    /\ UNCHANGED <<now, ticks, dbVars, cache, serverCache, pc, inv>>

SemCleanup ==
    /\ LET r == CleanupStaleSlots(activeSlots, slotRegistry, storage, now)
       IN /\ activeSlots' = r.activeSlots
          /\ slotRegistry' = r.slotRegistry
          /\ storage' = r.storage
    /\ UNCHANGED <<now, ticks, dbVars, cache, serverCache, pc, inv>>

SemTick == Tick /\ UNCHANGED <<dbVars, cache, serverCache, pc, inv>>

SemNext == SemAcquire \/ SemRelease \/ SemCleanup \/ SemTick

SemSpec == SemInitAll /\ [][SemNext]_vars

---------------------------------------------------------------------------
(* DurableSpec: the calls of the ApifySemaphore with each storage.put as a *)
(* step of its own, and the process stopping at any point.  A call changes *)
(* the fields in memory, then awaits the put of activeSlots, then the put  *)
(* of slotRegistry, then returns; no other call is delivered meanwhile.    *)
(* After a stop the constructor restores the fields from storage.          *)

SemMethods == {"acquireSlot", "releaseSlot", "cleanupStaleSlots"}

\* await this.ctx.storage.put("activeSlots", this.activeSlots)
StoreActive(st, active) == [st EXCEPT !.activeSlots = active]

\* a call that returns without having put the registry
StoreRegistrySkipped(st, reg) == st

\* await this.ctx.storage.put("slotRegistry", Array.from(entries))
StoreRegistry(st, reg) == [st EXCEPT !.slotRegistry = reg]

\* the synchronous part of a call: the fields in memory after it, whether
\* the call goes on to persist them, and what acquireSlot will return
SemSync(method, userId) ==
    IF method = "acquireSlot"
    THEN LET r == AcquireSlot(activeSlots, slotRegistry, storage, userId, now)
         IN [activeSlots |-> r.activeSlots, slotRegistry |-> r.slotRegistry,
             persists |-> r.result.acquired, slot |-> r.result,
             cleaned |-> 0]
    ELSE IF method = "releaseSlot"
    THEN LET r == ReleaseSlot(activeSlots, slotRegistry, storage, userId)
         IN [activeSlots |-> r.activeSlots, slotRegistry |-> r.slotRegistry,
             persists |-> FirstSlotOf(slotRegistry, userId) # 0,
             slot |-> NoSlot, cleaned |-> 0]
    ELSE LET r == CleanupStaleSlots(activeSlots, slotRegistry, storage, now)
         IN [activeSlots |-> r.activeSlots, slotRegistry |-> r.slotRegistry,
             persists |-> r.cleaned > 0, slot |-> NoSlot,
             cleaned |-> r.cleaned]

\* a call is delivered and runs up to its first await, or to its return
SemCall(p) ==
    /\ \A q \in Procs : pc[q] = "idle"
    /\ \E method \in SemMethods, u \in FgUsers :
          LET r == SemSync(method, u)
          IN /\ activeSlots' = r.activeSlots
             /\ slotRegistry' = r.slotRegistry
             /\ Step(p, [pc |-> IF r.persists THEN "put_active"
                                ELSE "returned",
                         inv |-> [IdleInv EXCEPT !.tool = method,
                                                 !.userId = u,
                                                 !.slot = r.slot,
                                                 !.slotId = SlotId(u, now),
                                                 !.touched = r.persists,
                                                 !.cleaned = r.cleaned]])
    /\ UNCHANGED <<now, ticks, storage, dbVars, cache, serverCache>>

SemPutActive(p) ==
    /\ pc[p] = "put_active"
    /\ storage' = StoreActive(storage, activeSlots)
    /\ pc' = [pc EXCEPT ![p] = "put_registry"]
    /\ UNCHANGED <<now, ticks, activeSlots, slotRegistry, dbVars, cache, serverCache, inv>>

SemPutRegistry(p) ==
    /\ pc[p] = "put_registry"
    /\ storage' = StoreRegistry(storage, slotRegistry)
    /\ pc' = [pc EXCEPT ![p] = "returned"]
    /\ UNCHANGED <<now, ticks, activeSlots, slotRegistry, dbVars, cache, serverCache, inv>>

\* the caller has its answer
SemReturn(p) ==
    /\ pc[p] = "returned"
    /\ Step(p, [pc |-> "idle", inv |-> IdleInv])
    /\ UNCHANGED <<semVars, dbVars, cache, serverCache>>

\* the process stops, calls in flight are lost, and the constructor of the
\* next instance restores the fields from storage
CrashRestart ==
    /\ activeSlots' = Restore(storage).activeSlots
    /\ slotRegistry' = Restore(storage).slotRegistry
    /\ pc' = [p \in Procs |-> "idle"]
    /\ inv' = [p \in Procs |-> IdleInv]
    /\ UNCHANGED <<now, ticks, storage, dbVars, cache, serverCache>>

\* time passes until the slots held so far have gone stale
LongTick ==
    /\ ticks < MaxClockTicks
    /\ now' = now + STALE_THRESHOLD
    /\ ticks' = ticks + 1
    /\ UNCHANGED <<activeSlots, slotRegistry, storage, dbVars, cache, serverCache, pc, inv>>

DurableNext ==
    \/ \E p \in Procs :
          SemCall(p) \/ SemPutActive(p) \/ SemPutRegistry(p) \/ SemReturn(p)
    \/ CrashRestart
    \/ LongTick

DurableSpec == SemInitAll /\ [][DurableNext]_vars

---------------------------------------------------------------------------
(* Properties of the semaphore, checked under SemSpec *)

\* C2: in every state reached by acquireSlot, releaseSlot and
\* cleanupStaleSlots calls, 0 <= activeSlots <= MAX_SLOTS.
C2_ActiveSlotsWithinCap == 0 <= activeSlots /\ activeSlots <= MAX_SLOTS

\* the cap is reached with a slot that an acquireSlot call of this run added
C2_Witness ==
    /\ activeSlots = MAX_SLOTS
    /\ \E i \in 1..Len(slotRegistry) : slotRegistry[i].userId \in FgUsers

\* C3: activeSlots equals the number of entries of slotRegistry in every
\* state, also when one userId acquires twice within one millisecond.
C3_ActiveSlotsEqualsRegistrySize == activeSlots = Len(slotRegistry)

---------------------------------------------------------------------------
(* Properties of the tool handlers, checked under Spec *)

\* the invocation asked for a slot and was refused one
Refused(p) == inv[p].slot # NoSlot /\ ~inv[p].slot.acquired

\* the invocation asked for a slot and was granted one
Granted(p) == inv[p].slot # NoSlot /\ inv[p].slot.acquired

\* C1: the backend jobs running between an acquireSlot and its releaseSlot
\* never number more than MAX_SLOTS, and an invocation whose acquireSlot
\* returned acquired = false never runs the backend job.
C1_BackendJobsWithinSlots ==
    /\ Cardinality(BgExecuting) + Cardinality(Executing) <= MAX_SLOTS
    /\ \A p \in Procs : pc[p] = "exec" => inv[p].slot.acquired

\* C4: an invocation that misses the cache while the semaphore is at
\* MAX_SLOTS returns a capacity error: it does not execute the backend job,
\* debits nothing and leaves the counter and the registry as they were.
C4_RefusedInvocationFailsFast ==
    \A p \in Procs :
        Refused(p) => /\ ~inv[p].executed
                      /\ inv[p].debits = 0
                      /\ ~inv[p].touched
                      /\ pc[p] = "done" => inv[p].outcome = "error"

\* C5: a finished invocation has called releaseSlot exactly once if its
\* acquireSlot returned acquired = true, and not at all if it acquired no
\* slot (cache hit, insufficient balance, validation error, acquired = false).
C5_ReleaseMatchesAcquire ==
    \A p \in Procs :
        pc[p] = "done" =>
            inv[p].releases = IF Granted(p) THEN 1 ELSE 0

\* C6: an invocation served from the cache never calls acquireSlot (nor
\* releaseSlot), and no step of it changes the counter or the registry.
C6_CacheHitBypassesSemaphore ==
    \A p \in Procs :
        inv[p].path = "hit" => /\ inv[p].acquires = 0
                               /\ inv[p].releases = 0
                               /\ inv[p].slot = NoSlot
                               /\ ~inv[p].touched

\* a cache hit was served and debited to its end while the registry held slots
C6_Witness ==
    \E p \in Procs :
        /\ pc[p] = "done"
        /\ inv[p].path = "hit"
        /\ inv[p].debits = 1
        /\ activeSlots > 0

\* C10: over all interleavings of one user's invocations, each of which
\* debits only after its own checkBalance answered sufficient = true, the
\* balance of the user is never negative.
C10_BalanceNeverNegative ==
    \A u \in UserIds :
        users[u] # NoRow => users[u].current_token_balance >= 0

---------------------------------------------------------------------------
(* Properties of the ledger, checked under LedgerSpec *)

\* the calls made with action id a
Callers(a) == {p \in Procs : pc[p] # "idle" /\ inv[p].actionId = a}

RECURSIVE SumDebits(_)
SumDebits(ps) ==
    IF ps = {} THEN 0
    ELSE LET p == CHOOSE q \in ps : TRUE
         IN inv[p].debits + SumDebits(ps \ {p})

\* times the balance was decremented for action id a
DebitsOf(a) == SumDebits(Callers(a))

ActionRowsOf(a) == {r \in mcp_actions : r.action_id = a}

\* the transaction rows written by the calls made with action id a
TransactionRowsOf(a) ==
    {t \in transactions : t.transaction_id[1] \in Callers(a)}

\* every call made with action id a names a user that has a row
UsersExist(a) == \A p \in Callers(a) : users[inv[p].userId] # NoRow

C8_ReplayIsIdempotent ==
    \A p \in Procs :
        inv[p].replay =>
            /\ inv[p].commits = 0
            /\ inv[p].debits = 0
            /\ pc[p] = "done" /\ ~inv[p].threw =>
                  /\ inv[p].result.success
                  /\ inv[p].result.alreadyProcessed
                  /\ users[inv[p].userId] # NoRow =>
                        inv[p].result.newBalance =
                            users[inv[p].userId].current_token_balance

\* a second consumeTokens call with the arguments of a first one that had
\* returned a fresh result has returned too
C8_Witness ==
    \E p, q \in Procs :
        /\ p # q
        /\ pc[p] = "done" /\ pc[q] = "done"
        /\ ~inv[p].wrapped /\ ~inv[q].wrapped
        /\ ~inv[q].threw /\ ~inv[q].result.alreadyProcessed
        /\ inv[p].replay /\ ~inv[p].threw
        /\ inv[p].userId = inv[q].userId
        /\ inv[p].amount = inv[q].amount
        /\ inv[p].actionId = inv[q].actionId

\* no round trip of the call failed
Undisturbed(p) == inv[p].lastError # TransientError

\* C9: when the concurrent calls that share one actionId have all returned
\* (positive amount, existing user, no failing round trip), the balance was
\* decremented exactly once, there is exactly one mcp_actions row and one
\* transactions row, and every call returned success, all but one of them
\* with alreadyProcessed = true.
C9_ConcurrentCallsDebitOnce ==
    \A a \in ActionIds :
        ( /\ Callers(a) # {}
          /\ UsersExist(a)
          /\ \A p \in Callers(a) :
                pc[p] = "done" /\ inv[p].amount > 0 /\ Undisturbed(p) ) =>
            /\ DebitsOf(a) = 1
            /\ Cardinality(ActionRowsOf(a)) = 1
            /\ Cardinality(TransactionRowsOf(a)) = 1
            /\ \A p \in Callers(a) : ~inv[p].threw /\ inv[p].result.success
            /\ Cardinality({p \in Callers(a) :
                              ~inv[p].result.alreadyProcessed}) = 1

\* two calls raced: both passed the idempotency check, the batch of one hit
\* the UNIQUE constraint, and both have returned
C9_Witness ==
    \E p, q \in Procs :
        /\ p # q
        /\ inv[p].actionId = inv[q].actionId
        /\ pc[p] = "done" /\ pc[q] = "done"
        /\ Undisturbed(p) /\ Undisturbed(q)
        /\ inv[p].conflicts = 1
        /\ inv[p].result.alreadyProcessed
        /\ inv[q].commits = 1

RECURSIVE SumAmounts(_)
\* the tokens taken according to the transactions rows ts (usage rows carry
\* the amount negated)
SumAmounts(ts) ==
    IF ts = {} THEN 0
    ELSE LET t == CHOOSE x \in ts : TRUE
         IN (0 - t.token_amount) + SumAmounts(ts \ {t})

TransactionsOf(u) == {t \in transactions : t.user_id = u}

NoResultCauses ==
    {"raise", "no-items", "blank", "r2-raise", "errored", "timeout"}

\* C12: a tool invocation that returns no usable result performs no debit:
\* the balance is not changed by it and no mcp_actions, transactions or
\* failed_deductions row is written for it.
C12_NoResultNoDebit ==
    \A p \in Procs :
        inv[p].cause \in NoResultCauses =>
            /\ inv[p].debits = 0
            /\ inv[p].commits = 0
            /\ ActionRowsOf(inv[p].actionId) = {}
            /\ \A t \in transactions : t.transaction_id[1] # p
            /\ \A f \in failed_deductions : f.action_id # inv[p].actionId

\* a workflow timed out after the backend job had run, next to an invocation
\* that was charged
C12_Witness ==
    \E p, q \in Procs :
        /\ pc[p] = "done" /\ inv[p].cause = "timeout" /\ inv[p].executed
        /\ pc[q] = "done" /\ inv[q].debits = 1
        /\ inv[p].userId = inv[q].userId

\* C13: when checkBalance answers sufficient = false the invocation returns
\* the insufficient-balance error and has no side effect: no cache read or
\* write, no acquireSlot or releaseSlot, no backend job, no debit.
C13_InsufficientNoSideEffects ==
    \A p \in Procs :
        inv[p].sufficient = "no" =>
            /\ inv[p].path = ""
            /\ inv[p].cacheWrites = 0
            /\ inv[p].acquires = 0 /\ inv[p].releases = 0 /\ ~inv[p].touched
            /\ ~inv[p].executed
            /\ inv[p].amount = 0 /\ inv[p].commits = 0 /\ inv[p].debits = 0
            /\ pc[p] = "done" => inv[p].outcome = "insufficient"

\* an invocation was turned away for its balance after another invocation
\* of the same user had been charged
C13_Witness ==
    \E p, q \in Procs :
        /\ pc[p] = "done" /\ inv[p].sufficient = "no"
        /\ inv[q].userId = inv[p].userId /\ inv[q].debits = 1
        /\ users[inv[p].userId].current_token_balance
              = SUMMARY_COST - TRANSCRIPT_COST

\* C14: every value written to the result cache, and every action result
\* passed to a debit, has passed through sanitizeOutput and redactPII, in
\* get_youtube_transcript and in get_annotated_summary.
C14_OnlySanitizedPersisted ==
    /\ \A k \in Urls : cache[k] # NoValue => cache[k].sanitized
    /\ \A p \in Procs :
          inv[p].resultSanitized # "" => inv[p].resultSanitized = "yes"

\* the failed_deductions row of the call p has made
LoggedRow(p) ==
    FailedDeductionRow(inv[p].userId, inv[p].amount, inv[p].tool,
                       inv[p].actionId, inv[p].lastError)

\* C15 (as claimed): consumeTokensWithRetry makes at most maxRetries attempts,
\* and a failed_deductions row is written if and only if all of them failed,
\* the last error being thrown to the caller after the row is written.
C15_LoggedIffExhausted ==
    \A p \in Procs :
        inv[p].wrapped =>
            /\ inv[p].attempt <= MAX_RETRIES
            /\ pc[p] = "done" =>
                  /\ inv[p].threw <=> inv[p].attempt = MAX_RETRIES
                                      /\ inv[p].lastError # ""
                                      /\ inv[p].result = NoResult
                  /\ inv[p].threw <=> /\ inv[p].logged = "written"
                                      /\ LoggedRow(p) \in failed_deductions

\* C15 (amended): consumeTokensWithRetry makes at most maxRetries attempts; it
\* inserts the failed_deductions row only after all of them failed, tries the
\* INSERT once in that case, and throws the last error to the caller whether
\* or not the INSERT succeeded; the row is there whenever the INSERT did.
C15_LoggedOnlyWhenExhausted ==
    \A p \in Procs :
        /\ ~inv[p].wrapped => inv[p].logged = ""
        /\ inv[p].wrapped =>
            /\ inv[p].attempt <= MAX_RETRIES
            /\ inv[p].logged # "" =>
                  /\ pc[p] = "done" /\ inv[p].threw
                  /\ inv[p].attempt = MAX_RETRIES
            /\ inv[p].logged = "written" => LoggedRow(p) \in failed_deductions
            /\ pc[p] = "done" =>
                  inv[p].threw <=> /\ inv[p].logged \in {"written", "lost"}
                                   /\ inv[p].result = NoResult

\* all attempts of a call failed on D1 errors, the row was written and the
\* error thrown
C15_Witness ==
    \E p \in Procs :
        /\ pc[p] = "done" /\ inv[p].wrapped /\ inv[p].threw
        /\ inv[p].amount > 0
        /\ inv[p].lastError = TransientError
        /\ inv[p].logged = "written"
        /\ LoggedRow(p) \in failed_deductions

\* C16: a consumeTokens call whose batch runs against a user with is_deleted
\* set fails and changes neither the balance nor the transactions and
\* mcp_actions tables, also when the flag was set after the call began.
C16_DeletedAccountNotDebited ==
    \A p \in Procs :
        inv[p].accountAtBatch = "deleted" =>
            /\ inv[p].commits = 0
            /\ inv[p].debits = 0
            /\ pc[p] = "done" => inv[p].threw

\* C17: the balance decrement, the transactions row and the mcp_actions row
\* of a debit take effect together or not at all; when the UPDATE changes no
\* row (user missing) consumeTokens fails, no transactions or mcp_actions row
\* stays behind, and a retry with the same actionId is not answered as
\* alreadyProcessed.
C17_BatchAllOrNothing ==
    /\ \A p \in Procs : inv[p].commits = inv[p].debits
    /\ \A u \in UserIds :
          users[u] = NoRow =>
              /\ \A t \in transactions : t.user_id # u
              /\ \A a \in mcp_actions : a.user_id # u
    /\ \A p \in Procs :
          inv[p].accountAtBatch = "missing" /\ pc[p] = "done" =>
              inv[p].threw

---------------------------------------------------------------------------
(* SweepSpec: the semaphore with a scheduler that keeps calling            *)
(* cleanupStaleSlots (the /cleanup route, "call this periodically") and a  *)
(* clock that keeps running.  Owners may or may not release.  The clock is *)
(* bounded, so slots are acquired only while it can still advance.  The    *)
(* semaphore starts empty.                                                 *)

SweepInit == SemInitAll /\ slotRegistry = <<>>

SweepAcquire == ticks < MaxClockTicks /\ SemAcquire

\* the clock passes the staleness threshold
SweepTick ==
    /\ ticks <= MaxClockTicks
    /\ now' = now + STALE_THRESHOLD + 1
    /\ ticks' = ticks + 1
    /\ UNCHANGED <<activeSlots, slotRegistry, storage, dbVars, cache, serverCache, pc, inv>>

SweepNext == SweepAcquire \/ SemRelease \/ SemCleanup \/ SweepTick

SweepSpec ==
    /\ SweepInit
    /\ [][SweepNext]_vars
    /\ WF_vars(SemCleanup)
    /\ WF_vars(SweepTick)

---------------------------------------------------------------------------
(* HashSpec: callers of hashApifyInput and buildCacheKey.  A JavaScript    *)
(* object is the sequence of its <<key, value>> pairs in insertion order;  *)
(* a value is a scalar or an object.  A string is the sequence of its      *)
(* tokens.  SHA-256 is taken as collision free: the digest stands for the  *)
(* string that was hashed.                                                 *)

Scalar(x) == [scalar |-> x]
Object(pairs) == [object |-> pairs]
IsObject(v) == "object" \in DOMAIN v

\* every key of the inputs, in the order Array.prototype.sort puts them
SortedKeys == <<"actorId", "input", "lang", "videoUrl">>

Keys(pairs) == {pairs[i][1] : i \in 1..Len(pairs)}
ValueOf(pairs, k) == pairs[CHOOSE i \in 1..Len(pairs) : pairs[i][1] = k][2]

\* Object.keys(input).sort()
KeysSorted(pairs) ==
    SelectSeq(SortedKeys, LAMBDA k : k \in Keys(pairs))

\* sortedInput: the top-level keys in sorted order, each with input[key] as
\* it is
SortTopLevel(pairs) ==
    LET ks == KeysSorted(pairs)
    IN [i \in 1..Len(ks) |-> <<ks[i], ValueOf(pairs, ks[i])>>]

RECURSIVE Stringify(_)
RECURSIVE StringifyPairs(_, _)
\* JSON.stringify of a value: members in the insertion order of the object
Stringify(v) ==
    IF IsObject(v)
    THEN <<"{">> \o StringifyPairs(v.object, 1) \o <<"}">>
    ELSE <<v.scalar>>
StringifyPairs(pairs, i) ==
    IF i > Len(pairs) THEN <<>>
    ELSE <<pairs[i][1], ":">> \o Stringify(pairs[i][2])
            \o (IF i < Len(pairs) THEN <<",">> ELSE <<>>)
            \o StringifyPairs(pairs, i + 1)

\* crypto.subtle.digest("SHA-256", ...) as hex
Sha256Hex(str) == <<"sha256">> \o str

\* hashApifyInput
HashApifyInput(input) == Sha256Hex(Stringify(Object(SortTopLevel(input.object))))

\* buildCacheKey: `apify:${actorId}:${inputHash}`
BuildCacheKey(actorId, inputHash) == <<"apify", ":", actorId, ":">> \o inputHash

ActorIds == {ACTOR_ID, "other-actor"}

Orders(a, b) == {<<a, b>>, <<b, a>>}

\* the inputs hashed: flat objects, and the { actorId, input: {...} } shape
\* the handlers pass, each in every insertion order of its keys
HashInputs ==
    LET flat == UNION {Orders(<<"videoUrl", Scalar("v1")>>,
                              <<"lang", Scalar(l)>>) : l \in {"en", "pl"}}
        inner == Orders(<<"videoUrl", Scalar("v1")>>, <<"lang", Scalar("en")>>)
        nested == UNION {Orders(<<"actorId", Scalar(ACTOR_ID)>>,
                                <<"input", Object(n)>>) : n \in inner}
    IN {Object(o) : o \in flat \cup nested}

\* a caller computes the cache key of an input
HashCall(p) ==
    /\ pc[p] = "idle"
    /\ \E a \in ActorIds, input \in HashInputs :
          Step(p, [pc |-> "done",
                   inv |-> [IdleInv EXCEPT
                      !.tool = "hashApifyInput", !.actorId = a,
                      !.input = input,
                      !.digest = HashApifyInput(input),
                      !.cacheKey = BuildCacheKey(a, HashApifyInput(input))]])
    /\ UNCHANGED <<semVars, dbVars, cache, serverCache>>

HashNext == \E p \in Procs : HashCall(p)

HashSpec == LedgerInit /\ [][HashNext]_vars

---------------------------------------------------------------------------
(* Properties of the semaphore's persistence, checked under DurableSpec *)

\* C18: when activeSlots >= MAX_SLOTS, acquireSlot returns at once, without
\* an await, with acquired = false, currentSlots = activeSlots, maxSlots =
\* MAX_SLOTS and an estimated wait, and leaves activeSlots, slotRegistry and
\* the storage as they were.
C18_FullSemaphoreFailsFast ==
    [][\A p \in Procs :
         ( /\ pc[p] = "idle" /\ pc'[p] # "idle"
           /\ inv'[p].tool = "acquireSlot"
           /\ activeSlots >= MAX_SLOTS ) =>
             /\ pc'[p] = "returned"
             /\ inv'[p].slot = [acquired |-> FALSE,
                                currentSlots |-> activeSlots,
                                maxSlots |-> MAX_SLOTS,
                                estimatedWaitTime |-> ESTIMATED_WAIT]
             /\ UNCHANGED <<activeSlots, slotRegistry, storage>>]_vars

\* acquireSlot has turned a caller away at 32 of 32
C18_Witness ==
    \E p \in Procs :
        /\ pc[p] = "returned"
        /\ inv[p].tool = "acquireSlot"
        /\ ~inv[p].slot.acquired
        /\ inv[p].slot.currentSlots = MAX_SLOTS
        /\ Len(slotRegistry) = MAX_SLOTS

\* C19: when acquireSlot has returned acquired = true, the stored activeSlots
\* and the stored slotRegistry include the new slot: what the constructor
\* would restore at that moment holds the slot.
C19_AcquiredSlotIsDurable ==
    \A p \in Procs :
        ( /\ pc[p] = "returned"
          /\ inv[p].tool = "acquireSlot"
          /\ inv[p].slot.acquired ) =>
            LET r == Restore(storage)
            IN /\ r.activeSlots = inv[p].slot.currentSlots
               /\ r.activeSlots = activeSlots
               /\ r.slotRegistry = slotRegistry
               /\ \E k \in 1..Len(r.slotRegistry) :
                     /\ r.slotRegistry[k].slotId = inv[p].slotId
                     /\ r.slotRegistry[k].userId = inv[p].userId

\* acquireSlot has granted the last free slot
C19_Witness ==
    \E p \in Procs :
        /\ pc[p] = "returned"
        /\ inv[p].tool = "acquireSlot"
        /\ inv[p].slot.acquired
        /\ inv[p].slot.currentSlots = MAX_SLOTS

\* C20: wherever the process stops inside acquireSlot, releaseSlot or
\* cleanupStaleSlots, also between the put of activeSlots and the put of
\* slotRegistry, the activeSlots the constructor restores equals the size of
\* the slotRegistry it restores.
C20_RestoredCounterMatchesRegistry ==
    Restore(storage).activeSlots = Len(Restore(storage).slotRegistry)

---------------------------------------------------------------------------
(* Properties of the stale sweep, checked under SweepSpec *)

\* the moments at which a slot can be acquired
SweepTimes == {j * (STALE_THRESHOLD + 1) : j \in 0..MaxClockTicks}

\* every registry entry there can be
SweepEntries == {SlotEntry(u, t) : u \in FgUsers, t \in SweepTimes}

InRegistry(e) == \E i \in 1..Len(slotRegistry) : slotRegistry[i] = e

\* C21: with cleanupStaleSlots called again and again, every slot in the
\* registry is eventually removed from it, by a releaseSlot of its owner or
\* by the sweep once it is older than STALE_THRESHOLD.
C21_EverySlotEventuallyRemoved ==
    \A e \in SweepEntries : InRegistry(e) ~> ~InRegistry(e)

\* a slot nobody released has outlived the threshold and awaits the sweep
C21_Witness ==
    \E i \in 1..Len(slotRegistry) :
        /\ slotRegistry[i].userId \in FgUsers
        /\ IsStale(slotRegistry[i], now)

---------------------------------------------------------------------------
(* Properties of the handlers' charging, checked under Spec *)

\* C22 as stated: on a cache hit the invocation is charged a cache-tier cost
\* that is lower than the full cost of the tool.
C22_CacheHitChargedCacheTier ==
    \A p \in Procs :
        inv[p].path = "hit" =>
            \A r \in ActionRowsOf(inv[p].actionId) :
                r.tokens_consumed < FlatCost(inv[p].tool)

\* the rows of the ledger written for invocation p
ChargedRows(p) == {t \in transactions : t.transaction_id[1] = p}

\* C22, amended: on a cache hit the invocation is debited at most once, and
\* exactly once when it returns its result; the debit is of the tool's flat
\* cost, the same as for a fresh execution (3 for get_youtube_transcript,
\* 5 for get_annotated_summary), and the balance goes down by exactly the
\* amounts debited.
C22_CacheHitChargedFlatCost ==
    /\ \A p \in Procs :
          inv[p].path = "hit" =>
              LET cost == IF inv[p].tool = SUMMARY_TOOL
                          THEN SUMMARY_COST ELSE TRANSCRIPT_COST
              IN /\ inv[p].debits <= 1
                 /\ Cardinality(ChargedRows(p)) = inv[p].debits
                 /\ Cardinality(ActionRowsOf(inv[p].actionId)) = inv[p].debits
                 /\ \A t \in ChargedRows(p) : t.token_amount = 0 - cost
                 /\ \A r \in ActionRowsOf(inv[p].actionId) :
                       r.tokens_consumed = cost
                 /\ pc[p] = "done" /\ inv[p].outcome \in {"cached", "ok"} =>
                       inv[p].debits = 1
    /\ \A u \in UserIds :
          users[u].current_token_balance
              = SUMMARY_COST - SumAmounts(TransactionsOf(u))

\* a transcript served from the cache has been paid for
C22_Witness ==
    \E p \in Procs :
        /\ pc[p] = "done"
        /\ inv[p].path = "hit"
        /\ inv[p].tool = TRANSCRIPT_TOOL
        /\ inv[p].outcome = "cached"
        /\ inv[p].debits = 1
        /\ users[inv[p].userId].current_token_balance
              <= SUMMARY_COST - TRANSCRIPT_COST

---------------------------------------------------------------------------
(* Properties of checkBalance, checked under BalanceSpec *)

BalanceChecked(p) == pc[p] = "done" /\ inv[p].tool = "checkBalance"

\* C23 as stated: checkBalance for a userId without a user record fails
\* with a UserNotFound error and returns no result.
C23_MissingUserRaises ==
    \A p \in Procs :
        BalanceChecked(p) /\ users[inv[p].userId] = NoRow =>
            /\ inv[p].threw
            /\ inv[p].balance = NoBalance

\* C23, amended: checkBalance for a userId without a user record returns an
\* ordinary result, sufficient = false with currentBalance = 0 and no
\* userDeleted flag; the only error it raises is the one for a failed query.
C23_MissingUserInsufficient ==
    \A p \in Procs :
        BalanceChecked(p) /\ users[inv[p].userId] = NoRow =>
            IF inv[p].threw
            THEN inv[p].lastError = BalanceError /\ inv[p].balance = NoBalance
            ELSE inv[p].balance =
                    [sufficient |-> FALSE, currentBalance |-> 0,
                     required |-> inv[p].amount, userDeleted |-> Null]

\* checkBalance has answered for a user without a record
C23_Witness ==
    \E p \in Procs :
        /\ BalanceChecked(p)
        /\ users[inv[p].userId] = NoRow
        /\ ~inv[p].threw
        /\ ~inv[p].balance.sufficient

---------------------------------------------------------------------------
(* Properties of the arguments of consumeTokens, checked under LedgerSpec *)

\* C24: consumeTokens called with tokenAmount <= 0 (or an empty userId,
\* mcpServerName or toolName) fails before it reads or writes the database,
\* whether or not an mcp_actions row with its actionId exists: it never
\* takes the existingAction branch and never returns a result.
C24_InvalidArgumentsFailFirst ==
    \A p \in Procs :
        inv[p].tool = "consumeTokens" /\ inv[p].amount <= 0 =>
            /\ pc[p] # "ct_replay"
            /\ pc[p] = "done" => inv[p].threw

\* C25: a replayed consumeTokens call returns the outcome the original call
\* returned: the same newBalance and the same transactionId.
C25_ReplayReturnsRecordedOutcome ==
    \A p, q \in Procs :
        ( /\ pc[p] = "done" /\ ~inv[p].threw
          /\ pc[q] = "done" /\ ~inv[q].threw
          /\ inv[p].actionId = inv[q].actionId
          /\ ~inv[p].result.alreadyProcessed
          /\ inv[q].result.alreadyProcessed ) =>
            /\ inv[q].result.transactionId = inv[p].result.transactionId
            /\ inv[q].result.newBalance = inv[p].result.newBalance

\* the errors consumeTokens raises for its arguments
InvalidArgumentErrors ==
    {"Token amount must be positive", "Missing required parameters"}

\* C26: consumeTokensWithRetry retries transient storage errors only: when
\* consumeTokens fails for its arguments the call ends there, with no further
\* attempt and no failed_deductions row.
C26_InvalidArgumentsNotRetried ==
    \A p \in Procs :
        inv[p].wrapped /\ inv[p].lastError \in InvalidArgumentErrors =>
            /\ pc[p] = "done"
            /\ inv[p].logged = ""
            /\ \A f \in failed_deductions : f.action_id # inv[p].actionId

---------------------------------------------------------------------------
(* Properties of releaseSlot and cleanupStaleSlots, checked under          *)
(* DurableSpec                                                             *)

\* method m is delivered to p with this step
Delivered(p, m) == pc[p] = "idle" /\ pc'[p] # "idle" /\ inv'[p].tool = m

HoldsSlot(reg, userId) == \E i \in 1..Len(reg) : reg[i].userId = userId

\* position of the entry of userId that was acquired last
MostRecentSlotOf(reg, userId) ==
    CHOOSE i \in 1..Len(reg) :
        /\ reg[i].userId = userId
        /\ \A j \in 1..Len(reg) :
              reg[j].userId = userId => reg[j].timestamp <= reg[i].timestamp

\* C27: releaseSlot(userId), when the registry holds slots of userId, removes
\* exactly one of them, the most recently acquired one, and decrements
\* activeSlots by one (floored at zero); all other entries stay.
C27_ReleaseRemovesMostRecent ==
    [][\A p \in Procs :
         Delivered(p, "releaseSlot")
           /\ HoldsSlot(slotRegistry, inv'[p].userId) =>
             /\ slotRegistry' =
                   RegistryDeleteAt(slotRegistry,
                       MostRecentSlotOf(slotRegistry, inv'[p].userId))
             /\ activeSlots' = Max0(activeSlots - 1)]_vars

\* C28: releaseSlot(userId) called when the registry holds no slot of userId
\* returns without an await and changes nothing: activeSlots, slotRegistry
\* and the storage stay as they were.
C28_StrayReleaseIsNoOp ==
    [][\A p \in Procs :
         Delivered(p, "releaseSlot")
           /\ ~HoldsSlot(slotRegistry, inv'[p].userId) =>
             /\ pc'[p] = "returned"
             /\ UNCHANGED <<activeSlots, slotRegistry, storage>>]_vars

\* a release found no slot of its user while slots of others were held
C28_Witness ==
    \E p \in Procs :
        /\ pc[p] = "returned"
        /\ inv[p].tool = "releaseSlot"
        /\ ~inv[p].touched
        /\ activeSlots > 0
        /\ Len(slotRegistry) > 0

\* the entries of reg from position i on that are at most STALE_THRESHOLD old
RECURSIVE FreshFrom(_, _, _)
FreshFrom(reg, i, t) ==
    IF i > Len(reg) THEN <<>>
    ELSE IF t - reg[i].timestamp > STALE_THRESHOLD
    THEN FreshFrom(reg, i + 1, t)
    ELSE <<reg[i]>> \o FreshFrom(reg, i + 1, t)

\* C29: cleanupStaleSlots removes exactly the entries older than the
\* staleness threshold, decrements activeSlots once per removed entry
\* (floored at zero), returns the number removed and keeps every entry that
\* is at most the threshold old, in order; when nothing is stale it returns
\* without an await and changes neither the fields nor the storage.
C29_SweepRemovesExactlyTheStale ==
    [][\A p \in Procs :
         Delivered(p, "cleanupStaleSlots") =>
             LET kept == FreshFrom(slotRegistry, 1, now)
                 removed == Len(slotRegistry) - Len(kept)
             IN /\ slotRegistry' = kept
                /\ inv'[p].cleaned = removed
                /\ activeSlots' = Max0(activeSlots - removed)
                /\ UNCHANGED storage
                /\ removed = 0 =>
                      /\ pc'[p] = "returned"
                      /\ UNCHANGED <<activeSlots, slotRegistry>>
                /\ removed > 0 => pc'[p] = "put_active"]_vars

\* a sweep has removed the stale entries and kept one that had just reached
\* the threshold
C29_Witness ==
    \E p \in Procs :
        /\ pc[p] = "returned"
        /\ inv[p].tool = "cleanupStaleSlots"
        /\ inv[p].cleaned > 0
        /\ \E i \in 1..Len(slotRegistry) :
              now - slotRegistry[i].timestamp = STALE_THRESHOLD
        /\ storage = Persisted(activeSlots, slotRegistry)

---------------------------------------------------------------------------
(* Properties of the cache lookup, checked under Spec *)

\* C30: when the key-value store fails on the read of a stored result,
\* getCachedApifyResult answers a miss and raises nothing: the invocation
\* goes on to acquireSlot and to the backend job, and does not end at the
\* lookup.
C30_CacheReadFailureIsAMiss ==
    \A p \in Procs :
        inv[p].cause = KvReadFailed =>
            /\ inv[p].path = "miss"
            /\ inv[p].sufficient = "yes"
            /\ \/ pc[p] = "acquire" /\ inv[p].outcome = ""
               \/ inv[p].acquires = 1 /\ inv[p].executed

\* the backend job runs for an input whose stored result could not be read
C30_Witness ==
    \E p \in Procs :
        /\ inv[p].cause = KvReadFailed
        /\ pc[p] = "exec"
        /\ inv[p].slot.acquired

\* C31: when the key-value store fails on the write, setCachedApifyResult
\* raises nothing: the invocation goes on to debit the full cost of its
\* tool, releases its slot and, the debit having gone through, returns its
\* result.
C31_CacheWriteFailureIsSwallowed ==
    \A p \in Procs :
        inv[p].cause = KvWriteFailed =>
            /\ pc[p] \in {"workflow", "debit", "finally", "done"}
            /\ pc[p] # "workflow" =>
                  /\ inv[p].wrapped
                  /\ inv[p].amount = IF inv[p].tool = SUMMARY_TOOL
                                     THEN SUMMARY_COST ELSE TRANSCRIPT_COST
            /\ pc[p] \in {"finally", "done"} /\ ~inv[p].threw =>
                  inv[p].debits = 1 /\ inv[p].outcome = "ok"
            /\ pc[p] = "done" => inv[p].releases = 1

\* a transcript was paid for and returned although it could not be cached
C31_Witness ==
    \E p \in Procs :
        /\ inv[p].cause = KvWriteFailed
        /\ inv[p].tool = TRANSCRIPT_TOOL
        /\ pc[p] = "done"
        /\ inv[p].outcome = "ok"
        /\ inv[p].debits = 1
        /\ inv[p].releases = 1
        /\ cache[CacheKey(inv[p].url)] = NoValue

---------------------------------------------------------------------------
(* Properties of the cache key, checked under HashSpec *)

RECURSIVE SameValue(_, _)
\* two values with the same keys and values, whatever the insertion order
SameValue(v, w) ==
    IF IsObject(v) /\ IsObject(w)
    THEN /\ Keys(v.object) = Keys(w.object)
         /\ \A k \in Keys(v.object) :
               SameValue(ValueOf(v.object, k), ValueOf(w.object, k))
    ELSE v = w

Hashed(p) == pc[p] = "done" /\ inv[p].tool = "hashApifyInput"

\* C32: two inputs with the same keys and values that differ only in key
\* insertion order have the same digest, hence the same cache key under one
\* actorId; inputs under different actorIds never share a cache key.
C32_HashIgnoresKeyOrder ==
    \A p, q \in Procs :
        Hashed(p) /\ Hashed(q) =>
            /\ SameValue(inv[p].input, inv[q].input) =>
                  /\ inv[p].digest = inv[q].digest
                  /\ inv[p].actorId = inv[q].actorId =>
                        inv[p].cacheKey = inv[q].cacheKey
            /\ inv[p].actorId # inv[q].actorId =>
                  inv[p].cacheKey # inv[q].cacheKey

---------------------------------------------------------------------------
(* Properties of the order of the handlers' steps, checked under Spec *)

C34_PollingIsBounded ==
    \A p \in Procs :
        /\ inv[p].polls <= maxAttempts
        /\ inv[p].observed = "running" =>
              inv[p].cause = "timeout" /\ inv[p].error = WorkflowTimedOut
        /\ inv[p].observed = "errored" =>
              /\ inv[p].cause = "errored"
              /\ inv[p].error = WorkflowFailed
              /\ inv[p].error # WorkflowTimedOut
        /\ inv[p].observed = "complete" => inv[p].error = ""
        /\ inv[p].cause \in {"errored", "timeout"} =>
              /\ inv[p].outcome = "error"
              /\ inv[p].debits = 0 /\ inv[p].commits = 0
              /\ ActionRowsOf(inv[p].actionId) = {}
              /\ pc[p] \in {"finally", "done"}
              /\ pc[p] = "done" => inv[p].releases = inv[p].acquires

\* one invocation timed out after maxAttempts polls and released the slot
\* it held, another saw its workflow report 'errored'
C34_Witness ==
    \E p, q \in Procs :
        /\ pc[p] = "done" /\ inv[p].cause = "timeout"
        /\ inv[p].polls = maxAttempts
        /\ inv[p].acquires = 1 /\ inv[p].releases = 1
        /\ pc[q] = "done" /\ inv[q].cause = "errored"
        /\ inv[q].error # inv[p].error
\* a step in which p's checkBalance call is answered
BalanceAnswered(p) ==
    /\ pc[p] = "idle"
    /\ pc'[p] = "done"
    /\ inv'[p].tool = "checkBalance"
    /\ ~inv'[p].threw

\* C35: checkBalance is read-only; for a soft-deleted account it returns
\* sufficient = false and userDeleted = true whatever the balance and the
\* required amount; for an active account it returns sufficient =
\* (currentBalance >= requiredTokens), currentBalance being the balance
\* stored at the time of the call.
C35_CheckBalanceReadsFresh ==
    [][\A p \in Procs :
          BalanceAnswered(p) =>
             LET row == users[inv'[p].userId]
                 b == inv'[p].balance
             IN /\ UNCHANGED dbVars
                /\ b.required = inv'[p].amount
                /\ row # NoRow =>
                      /\ b.currentBalance = row.current_token_balance
                      /\ IF row.is_deleted = 1
                         THEN ~b.sufficient /\ b.userDeleted = Val(TRUE)
                         ELSE /\ b.userDeleted = Val(FALSE)
                              /\ b.sufficient =
                                   (row.current_token_balance >= b.required)]_vars

\* checkBalance refused a soft-deleted account whose balance covered the
\* required amount, or refused an active account whose balance, read after
\* a debit, no longer covered the amount it had covered before
C35_Witness ==
    \E p \in Procs :
        /\ BalanceChecked(p) /\ ~inv[p].threw
        /\ ~inv[p].balance.sufficient
        /\ \/ /\ inv[p].balance.userDeleted = Val(TRUE)
              /\ inv[p].balance.currentBalance >= inv[p].balance.required
           \/ /\ inv[p].balance.userDeleted = Val(FALSE)
              /\ inv[p].balance.currentBalance < LedgerStartingBalance
              /\ inv[p].balance.required <= LedgerStartingBalance
\* the ways a backend job ends without a result the tool goes on with: it
\* raised (a timeout of the run included), returned no item or no data,
\* and for get_youtube_transcript left no text or could not be uploaded
BackendFailures == {"raise", "no-items", "blank", "r2-raise"}

\* C36: a cache entry is written only after a backend execution that
\* succeeded and produced a non-empty result: an invocation whose backend
\* job raised, timed out or returned an empty result writes nothing to the
\* cache, and every stored entry was written, once, by an invocation that
\* missed the cache and executed the backend job.
C36_CacheWrittenAfterSuccess ==
    /\ \A p \in Procs :
          /\ inv[p].cause \in BackendFailures => inv[p].cacheWrites = 0
          /\ inv[p].cacheWrites > 0 =>
                /\ inv[p].cacheWrites = 1
                /\ inv[p].executed
                /\ inv[p].path = "miss"
                /\ inv[p].acquires = 1
          /\ ~inv[p].executed => inv[p].cacheWrites = 0
    /\ \A k \in Urls :
          cache[CacheKey(k)] # NoValue =>
             \E p \in Procs :
                /\ inv[p].cacheWrites = 1
                /\ CacheKey(inv[p].url) = CacheKey(k)
                /\ inv[p].cause \notin BackendFailures

\* one invocation's backend job failed and left the cache as it was while
\* another's succeeded and stored its result
C36_Witness ==
    \E p, q \in Procs :
        /\ pc[p] = "done" /\ inv[p].cause \in BackendFailures
        /\ inv[p].executed /\ inv[p].cacheWrites = 0
        /\ inv[q].cacheWrites = 1 /\ inv[q].url = inv[p].url
        /\ cache[CacheKey(inv[q].url)] # NoValue
\* the invocation was granted a slot that no other invocation shares and it
\* is still between its acquireSlot and its releaseSlot, next to invocations
\* that were all granted the slot they asked for
HoldsOwnSlot(p) ==
    /\ pc[p] \in {"exec", "cacheput", "workflow", "debit", "finally"}
    /\ Granted(p)
    /\ \A q \in Procs \ {p} :
          inv[q].slot # NoSlot =>
             Granted(q) /\ inv[q].slotId # inv[p].slotId

\* C37: each releaseSlot call of a tool invocation removes the slot this
\* invocation acquired: the slot of an invocation that has not released it
\* yet stays in the registry whatever other invocations of the same user do.
C37_ReleaseRemovesOwnSlot ==
    \A p \in Procs :
        HoldsOwnSlot(p) =>
            \E i \in 1..Len(slotRegistry) :
                slotRegistry[i].slotId = inv[p].slotId
\* C38: for every interleaving of get_youtube_transcript and
\* get_annotated_summary invocations on one video URL, a cache hit in a tool
\* yields an entry of the shape that tool itself writes, so a cache hit in
\* get_youtube_transcript is never charged for an entry without a
\* transcript.
C38_CacheHitHasOwnShape ==
    \A p \in Procs :
        inv[p].path = "hit" =>
            inv[p].hitShape = CachedValue(inv[p].tool, inv[p].url).shape
\* p's call has re-entered consumeTokens after a UNIQUE failure of its batch
ReEntered(p) == inv[p].reentries > 0

\* C39: consumeTokens always terminates: after a UNIQUE failure of the batch
\* it re-enters itself at most once; the re-entry finds the mcp_actions row
\* and, its round trips answered, returns alreadyProcessed = true without
\* running the batch again.
C39_ConsumeTokensTerminates ==
    /\ [](\A p \in Procs :
            /\ inv[p].reentries <= 1
            /\ ReEntered(p) =>
                  /\ ExistingAction(mcp_actions, inv[p].actionId)
                  /\ pc[p] \in {"ct_check", "ct_replay", "ct_log", "done"}
                  /\ pc[p] = "done" /\ ~inv[p].threw =>
                        inv[p].result.alreadyProcessed
                  /\ pc[p] = "done" /\ Undisturbed(p) => ~inv[p].threw)
    /\ \A p \in Procs : (pc[p] \in CtPcs) ~> (pc[p] = "done")

\* a call lost the race for its actionId, re-entered once and returned the
\* replay
C39_Witness ==
    \E p \in Procs :
        /\ pc[p] = "done"
        /\ inv[p].reentries = 1
        /\ ~inv[p].threw
        /\ inv[p].result.alreadyProcessed
        /\ inv[p].commits = 0
---------------------------------------------------------------------------
(* LruSpec: the LRUCache that keeps one MCP server per user. The cache is  *)
(* the Map's entries in insertion order; getOrCreateServer has no await    *)
(* between its get and its set, so each call is one step.                  *)

\* number of servers the cache may hold, and of clock advances
MaxSizeBound == 2
MaxLruTicks == 3

\* constructor(maxSize)
maxSize == MaxSizeBound

ServerUsers == {"u1", "u2", "u3", "u4"}

\* new McpServer(...) of a user
ServerOf(userId) == <<"McpServer", userId>>

CacheEntry(key, value, t) == [key |-> key, value |-> value, lastAccessed |-> t]

\* has(key)
LruHas(c, key) == \E i \in 1..Len(c) : c[i].key = key

\* get(key): the value (undefined when the key is absent) and the cache with
\* the entry's lastAccessed set to Date.now()
LruGet(c, key, t) ==
    [value |-> IF LruHas(c, key)
               THEN Val((CHOOSE e \in {c[i] : i \in 1..Len(c)} :
                            e.key = key).value)
               ELSE Null,
     cache |-> [i \in 1..Len(c) |->
                  IF c[i].key = key THEN [c[i] EXCEPT !.lastAccessed = t]
                  ELSE c[i]]]

\* the loop of evictLRU: the first entry, in insertion order, whose
\* lastAccessed is below that of every entry before it and not above that
\* of any entry after it
OldestIndex(c) ==
    CHOOSE i \in 1..Len(c) :
        /\ \A j \in 1..(i - 1) : c[j].lastAccessed > c[i].lastAccessed
        /\ \A j \in (i + 1)..Len(c) : c[j].lastAccessed >= c[i].lastAccessed

\* position of the entry accessed last
NewestIndex(c) ==
    CHOOSE i \in 1..Len(c) :
        /\ \A j \in 1..(i - 1) : c[j].lastAccessed < c[i].lastAccessed
        /\ \A j \in (i + 1)..Len(c) : c[j].lastAccessed <= c[i].lastAccessed

\* an eviction that removes the most recently used entry
EvictMRU(c) ==
    IF Len(c) = 0 THEN c ELSE RegistryDeleteAt(c, NewestIndex(c))

\* evictLRU
EvictLRU(c) ==
    IF Len(c) = 0 THEN c ELSE RegistryDeleteAt(c, OldestIndex(c))

\* Map.set: an existing key keeps its position and takes the new entry
MapSet(c, entry) ==
    IF LruHas(c, entry.key)
    THEN [i \in 1..Len(c) |-> IF c[i].key = entry.key THEN entry ELSE c[i]]
    ELSE Append(c, entry)

\* set(key, value)
LruSet(c, key, value, t) ==
    MapSet(IF Len(c) >= maxSize /\ ~LruHas(c, key) THEN EvictLRU(c) ELSE c,
           CacheEntry(key, value, t))

\* serverCache.get(userId)
ServerCacheGet(userId) ==
    /\ serverCache' = LruGet(serverCache, userId, now).cache
    /\ UNCHANGED <<semVars, dbVars, cache, pc, inv>>

\* serverCache.set(userId, server)
ServerCacheSet(userId) ==
    /\ serverCache' = LruSet(serverCache, userId, ServerOf(userId), now)
    /\ UNCHANGED <<semVars, dbVars, cache, pc, inv>>

\* getOrCreateServer(env, userId, email): the cached server, or a new one
\* that is stored
GetOrCreateServer(userId) ==
    /\ LET g == LruGet(serverCache, userId, now)
       IN serverCache' =
             IF g.value # Null THEN g.cache
             ELSE LruSet(g.cache, userId, ServerOf(userId), now)
    /\ UNCHANGED <<semVars, dbVars, cache, pc, inv>>

\* Date.now() advances
LruTick ==
    /\ ticks < MaxLruTicks
    /\ now' = now + 1
    /\ ticks' = ticks + 1
    /\ UNCHANGED <<activeSlots, slotRegistry, storage, dbVars, cache,
                   serverCache, pc, inv>>

LruNext ==
    \/ LruTick
    \/ \E u \in ServerUsers :
          ServerCacheGet(u) \/ ServerCacheSet(u) \/ GetOrCreateServer(u)

LruSpec == LedgerInit /\ [][LruNext]_vars

---------------------------------------------------------------------------
(* Properties of the LRUCache, checked under LruSpec *)

LruKeys(c) == {c[i].key : i \in 1..Len(c)}

\* the entries of c that c2 no longer holds
Evicted(c, c2) == {i \in 1..Len(c) : c[i].key \notin LruKeys(c2)}

\* C40: after any sequence of get and set calls the size of the server
\* cache never exceeds maxSize; a set of a new key on a full cache evicts
\* exactly one entry, one whose lastAccessed is the smallest, and a set of a
\* key already present, like every get, evicts nothing.
C40_LruCacheBounded ==
    /\ [](Len(serverCache) <= maxSize)
    /\ [][\A u \in ServerUsers :
            /\ ServerCacheGet(u) => Evicted(serverCache, serverCache') = {}
            /\ ServerCacheSet(u) \/ GetOrCreateServer(u) =>
                  /\ u \in LruKeys(serverCache')
                  /\ IF Len(serverCache) >= maxSize
                        /\ u \notin LruKeys(serverCache)
                     THEN \E i \in 1..Len(serverCache) :
                             /\ Evicted(serverCache, serverCache') = {i}
                             /\ \A j \in 1..Len(serverCache) :
                                   serverCache[i].lastAccessed <=
                                      serverCache[j].lastAccessed
                     ELSE Evicted(serverCache, serverCache') = {}]_vars

\* a full cache holds an older and a newer entry, the older one coming
\* second in insertion order
C40_Witness ==
    /\ Len(serverCache) = maxSize
    /\ \E i, j \in 1..Len(serverCache) :
          /\ i < j
          /\ serverCache[j].lastAccessed < serverCache[i].lastAccessed
    /\ \E u \in ServerUsers : u \notin LruKeys(serverCache)
====
